---- MODULE Spec2Model ----
(***************************************************************************)
(* Model of the key-value store of src/main.go: the RWMutex-protected map  *)
(* with its dirty flag, the temp-file/rename persistence protocol, the     *)
(* periodic sync routine and the two shutdown paths.                       *)
(***************************************************************************)
EXTENDS Integers, Sequences, FiniteSets, TLC

(***************************************************************************)
(* Text.  A Go string is a sequence of one-character strings.              *)
(***************************************************************************)
Quote == "\""
Backslash == "\\"
Newline == "\n"
\* a byte that is not valid UTF-8, and the replacement rune U+FFFD
InvalidByte == "<ff>"
Replacement == "<U+FFFD>"

\* the characters of the model, in byte order
CharOrder == <<Newline, Quote, ",", ":", Backslash, "a", "b", "d", "e", "f",
               "k", "l", "u", "v", "x", "y", "{", "}", Replacement, InvalidByte>>

Rank(c) == CHOOSE i \in 1..Len(CharOrder) : CharOrder[i] = c

\* s < t as Go compares strings
RECURSIVE StrLess(_, _)
StrLess(s, t) ==
  IF t = <<>> THEN FALSE
  ELSE IF s = <<>> THEN TRUE
  ELSE IF Head(s) = Head(t) THEN StrLess(Tail(s), Tail(t))
  ELSE Rank(Head(s)) < Rank(Head(t))

(***************************************************************************)
(* encoding/json as the program uses it.                                   *)
(***************************************************************************)
\* variant: the encoder writes a quote inside a string as it is
EscapeCharPlainQuote(c) ==
  IF c = Backslash THEN <<Backslash, Backslash>>
  ELSE IF c = Newline THEN <<Backslash, "n">>
  ELSE IF c = InvalidByte THEN <<Backslash, "u", "f", "f", "f", "d">>
  ELSE <<c>>

\* the escape the encoder writes for one character of a string
EscapeChar(c) ==
  IF c = Quote THEN <<Backslash, Quote>>
  ELSE IF c = Backslash THEN <<Backslash, Backslash>>
  ELSE IF c = Newline THEN <<Backslash, "n">>
  ELSE IF c = InvalidByte THEN <<Backslash, "u", "f", "f", "f", "d">>
  ELSE <<c>>

RECURSIVE EscapeAll(_)
EscapeAll(s) == IF s = <<>> THEN <<>> ELSE EscapeChar(Head(s)) \o EscapeAll(Tail(s))

QuoteString(s) == <<Quote>> \o EscapeAll(s) \o <<Quote>>

\* the keys of a map in the order the encoder writes them (sorted)
RECURSIVE SortedKeys(_)
SortedKeys(S) ==
  IF S = {} THEN <<>>
  ELSE LET m == CHOOSE k \in S : \A o \in S \ {k} : StrLess(k, o)
       IN <<m>> \o SortedKeys(S \ {m})

RECURSIVE EncodeMembers(_, _)
EncodeMembers(m, ks) ==
  IF ks = <<>> THEN <<>>
  ELSE QuoteString(Head(ks)) \o <<":">> \o QuoteString(m[Head(ks)])
       \o (IF Len(ks) > 1 THEN <<",">> ELSE <<>>)
       \o EncodeMembers(m, Tail(ks))

\* json.NewEncoder(w).Encode(map): the object, then a newline
EncodeMap(m) == <<"{">> \o EncodeMembers(m, SortedKeys(DOMAIN m)) \o <<"}", Newline>>

\* the scanner: results carry ok, the value and the next position
Fail == [ok |-> FALSE, val |-> <<>>, next |-> 0]

RECURSIVE SkipSpace(_, _)
SkipSpace(t, i) == IF i <= Len(t) /\ t[i] = Newline THEN SkipSpace(t, i + 1) ELSE i

\* the body of a string literal from position i, up to the closing quote
RECURSIVE ScanString(_, _, _)
ScanString(t, i, acc) ==
  IF i > Len(t) THEN Fail
  ELSE IF t[i] = Quote THEN [ok |-> TRUE, val |-> acc, next |-> i + 1]
  ELSE IF t[i] = Newline THEN Fail
  ELSE IF t[i] = InvalidByte THEN ScanString(t, i + 1, Append(acc, Replacement))
  ELSE IF t[i] = Backslash THEN
    IF i + 1 > Len(t) THEN Fail
    ELSE IF t[i + 1] \in {Quote, Backslash} THEN ScanString(t, i + 2, Append(acc, t[i + 1]))
    ELSE IF t[i + 1] = "n" THEN ScanString(t, i + 2, Append(acc, Newline))
    ELSE IF t[i + 1] = "u" THEN
      IF i + 5 <= Len(t) /\ <<t[i + 2], t[i + 3], t[i + 4], t[i + 5]>> = <<"f", "f", "f", "d">>
      THEN ScanString(t, i + 6, Append(acc, Replacement))
      ELSE Fail
    ELSE Fail
  ELSE ScanString(t, i + 1, Append(acc, t[i]))

ParseString(t, i) ==
  IF i <= Len(t) /\ t[i] = Quote THEN ScanString(t, i + 1, <<>>) ELSE Fail

\* members of an object from position i (after "{" or ","): later keys win
RECURSIVE ParseMembers(_, _, _)
ParseMembers(t, i, acc) ==
  LET k == ParseString(t, SkipSpace(t, i)) IN
  IF ~k.ok THEN Fail
  ELSE LET c == SkipSpace(t, k.next) IN
    IF ~(c <= Len(t) /\ t[c] = ":") THEN Fail
    ELSE LET v == ParseString(t, SkipSpace(t, c + 1)) IN
      IF ~v.ok THEN Fail
      ELSE LET e == SkipSpace(t, v.next)
               m == [x \in DOMAIN acc \cup {k.val} |-> IF x = k.val THEN v.val ELSE acc[x]]
           IN IF e > Len(t) THEN Fail
              ELSE IF t[e] = "," THEN ParseMembers(t, e + 1, m)
              ELSE IF t[e] = "}" THEN [ok |-> TRUE, val |-> m, next |-> e + 1]
              ELSE Fail

\* one JSON object of strings starting at the first non-space character
ParseObject(t) ==
  LET i == SkipSpace(t, 1) IN
  IF ~(i <= Len(t) /\ t[i] = "{") THEN Fail
  ELSE LET j == SkipSpace(t, i + 1) IN
    IF j <= Len(t) /\ t[j] = "}" THEN [ok |-> TRUE, val |-> <<>>, next |-> j + 1]
    ELSE ParseMembers(t, j, <<>>)

\* json.NewDecoder(r).Decode(&m): the first value of the stream
DecodeStream(t) == ParseObject(t)

\* json.Unmarshal(body, &v): the whole input is one value
Unmarshal(t) ==
  LET r == ParseObject(t) IN
  IF r.ok /\ SkipSpace(t, r.next) > Len(t) THEN r ELSE Fail

(***************************************************************************)
(* Bounds and inputs.                                                      *)
(***************************************************************************)
\* requests the HTTP server takes over all runs of the process
MaxReqs == 2
\* requests taken in the behaviours checked for progress
LiveReqs == 1
Workers == {"h1", "h2"}
NoTask == "none"

EmptyMap == <<>>
ReqKeys == {<<>>, <<"a">>, <<"b">>}
ReqValues == {<<>>, <<Quote, InvalidByte>>}

\* a string literal as a client writes it: quote and backslash escaped, bytes as they are
RECURSIVE RawEscape(_)
RawEscape(s) ==
  IF s = <<>> THEN <<>>
  ELSE (IF Head(s) \in {Quote, Backslash} THEN <<Backslash, Head(s)>> ELSE <<Head(s)>>)
       \o RawEscape(Tail(s))

\* the body {"key":k,"value":v} of a /set request
SetBody(k, v) ==
  <<"{", Quote, "k", "e", "y", Quote, ":", Quote>> \o RawEscape(k) \o <<Quote, ",">>
  \o <<Quote, "v", "a", "l", "u", "e", Quote, ":", Quote>> \o RawEscape(v) \o <<Quote, "}">>

MalformedBodies ==
  { <<>>,
    SubSeq(SetBody(<<"a">>, <<"x">>), 1, 12),
    SetBody(<<"a">>, <<"x">>) \o <<"x">> }

\* a well-formed body without the key member
NoKeyBody == <<"{", Quote, "v", "a", "l", "u", "e", Quote, ":", Quote, "x", Quote, "}">>

Bodies == {SetBody(k, v) : k \in ReqKeys, v \in ReqValues} \cup MalformedBodies \cup {NoKeyBody}

Methods == {"GET", "POST"}

KeyField == <<"k", "e", "y">>
ValueField == <<"v", "a", "l", "u", "e">>

\* json.Unmarshal(body, &req) for SetRequest: absent members stay ""
UnmarshalSetRequest(body) ==
  LET r == Unmarshal(body) IN
  [ok |-> r.ok,
   Key |-> IF r.ok /\ KeyField \in DOMAIN r.val THEN r.val[KeyField] ELSE <<>>,
   Value |-> IF r.ok /\ ValueField \in DOMAIN r.val THEN r.val[ValueField] ELSE <<>>]

(***************************************************************************)
(* Files.                                                                  *)
(***************************************************************************)
NoFile == [exists |-> FALSE, data |-> <<>>]
File(t) == [exists |-> TRUE, data |-> t]

\* the lengths at which a failed write is cut short: nothing, half, all but the last byte
CutPoints(t) == {0, Len(t) \div 2, Len(t) - 1}
ProperPrefixes(t) == {SubSeq(t, 1, n) : n \in CutPoints(t)}

SampleMap == (<<"a">> :> <<Quote, Replacement>>)

\* the snapshot file the first run may find: none, or a damaged one
InitDataFiles ==
  { NoFile,
    File(SubSeq(EncodeMap(SampleMap), 1, 6)) }

(***************************************************************************)
(* State.                                                                  *)
(***************************************************************************)
VARIABLES
  proc,       \* "off", "running" or "exited"
  exitCode,   \* the exit status of the last run, -1 while there is none
  exitCause,  \* what ended the last run
  store,      \* kvs.store
  dirty,      \* kvs.dirty
  mu,         \* kvs.mu: the writer holding it and the readers holding it
  dataFile,   \* kvstore.json
  tmpFile,    \* kvstore.json.tmp
  syncPc,     \* position of startSyncRoutine / saveToDisk
  final,      \* the saveToDisk call was made on ctx.Done()
  ctxDone,    \* cancel() was called
  mainPc,     \* position of main after the goroutines are started
  tcpPc,      \* position of the shutdown listener goroutine
  httpPc,     \* position of the HTTP server goroutine
  srv,        \* the http.Server: "new", "listening" or "closed"
  wk,         \* the request handlers
  nreq,       \* requests taken so far
  written,    \* history: the last value given to each key by the load or a Set
  callData    \* history: kvstore.json as the running saveToDisk call found it

procVars == <<proc, exitCode, exitCause>>
storeVars == <<store, dirty, mu>>
fsVars == <<dataFile, tmpFile>>
syncVars == <<syncPc, final>>
shutVars == <<ctxDone, mainPc, tcpPc, httpPc, srv>>
reqVars == <<wk, nreq>>
histVars == <<written, callData>>
vars == <<procVars, storeVars, fsVars, syncVars, shutVars, reqVars, histVars>>

IdleWorker == [pc |-> "idle", key |-> <<>>, value |-> <<>>, status |-> 0,
               found |-> FALSE, out |-> <<>>, n |-> 0]

Unlocked == [writer |-> NoTask, readers |-> {}]

\* the memory of a process that is not running
NoProcess ==
  /\ store = EmptyMap /\ dirty = FALSE /\ mu = Unlocked
  /\ syncPc = "select" /\ final = FALSE
  /\ ctxDone = FALSE /\ mainPc = "wait" /\ tcpPc = "accept" /\ httpPc = "start"
  /\ srv = "new"
  /\ wk = [w \in Workers |-> IdleWorker]

Init ==
  /\ proc = "off" /\ exitCode = -1 /\ exitCause = "none"
  /\ NoProcess
  /\ dataFile \in InitDataFiles /\ tmpFile = NoFile
  /\ nreq = 0
  /\ written = EmptyMap /\ callData = dataFile

Running == proc = "running"

\* what a write of text t leaves in the file when it does not complete
Partial(t) == {File(part) : part \in ProperPrefixes(t)}

\* kvstore.json.tmp after the process stops: a write in progress is cut short
Interrupted ==
  IF syncPc = "encode" THEN {tmpFile} \cup Partial(EncodeMap(store)) ELSE {tmpFile}

\* os.Exit(code), log.Fatalf, or the process being killed: every task stops
\* and the memory of the process is gone
Exit(code, cause) ==
  /\ proc' = "exited" /\ exitCode' = code /\ exitCause' = cause
  /\ store' = EmptyMap /\ dirty' = FALSE /\ mu' = Unlocked
  /\ syncPc' = "select" /\ final' = FALSE
  /\ ctxDone' = FALSE /\ mainPc' = "wait" /\ tcpPc' = "accept" /\ httpPc' = "start"
  /\ srv' = "new"
  /\ wk' = [w \in Workers |-> IdleWorker]
  /\ nreq' = nreq
  /\ dataFile' = dataFile /\ tmpFile' \in Interrupted
  /\ written' = EmptyMap /\ callData' = dataFile

(***************************************************************************)
(* Startup.                                                                *)
(***************************************************************************)
\* variant: a snapshot that does not decode is taken as the empty record set
loadFromDiskLenient(f, openErr) ==
  IF ~f.exists THEN [err |-> FALSE, store |-> EmptyMap]
  ELSE IF openErr THEN [err |-> TRUE, store |-> EmptyMap]
  ELSE LET r == DecodeStream(f.data) IN
       IF r.ok THEN [err |-> FALSE, store |-> r.val] ELSE [err |-> FALSE, store |-> EmptyMap]

\* loadFromDisk on the empty map of NewKeyValueStore; openErr is an open
\* failure other than "not exist"
loadFromDisk(f, openErr) ==
  IF ~f.exists THEN [err |-> FALSE, store |-> EmptyMap]
  ELSE IF openErr THEN [err |-> TRUE, store |-> EmptyMap]
  ELSE LET r == DecodeStream(f.data) IN
       IF r.ok THEN [err |-> FALSE, store |-> r.val] ELSE [err |-> TRUE, store |-> EmptyMap]

\* main up to the wait on quit: NewKeyValueStore, log.Fatalf on its error,
\* then the goroutines are started
Boot ==
  /\ proc \in {"off", "exited"}
  /\ \E openErr \in BOOLEAN :
       LET r == loadFromDisk(dataFile, openErr) IN
       /\ dirty' = FALSE /\ mu' = Unlocked
       /\ syncPc' = "select" /\ final' = FALSE
       /\ ctxDone' = FALSE /\ mainPc' = "wait" /\ tcpPc' = "accept" /\ httpPc' = "start"
       /\ srv' = "new"
       /\ wk' = [w \in Workers |-> IdleWorker]
       /\ IF r.err
          THEN /\ proc' = "exited" /\ exitCode' = 1 /\ exitCause' = "load"
               /\ store' = EmptyMap /\ written' = EmptyMap
          ELSE /\ proc' = "running" /\ exitCode' = -1 /\ exitCause' = "none"
               /\ store' = r.store /\ written' = r.store
  /\ UNCHANGED <<fsVars, nreq, callData>>

(***************************************************************************)
(* The lock.                                                               *)
(***************************************************************************)
\* variant: Lock waits for the writer only
CanLockIgnoresReaders == mu.writer = NoTask

\* sync.RWMutex: Lock waits for the writer and the readers, RLock for the writer
CanLock == mu.writer = NoTask /\ mu.readers = {}
CanRLock == mu.writer = NoTask

(***************************************************************************)
(* The handlers and the store operations they call.                        *)
(***************************************************************************)
Accepting == Running /\ srv = "listening" /\ nreq < MaxReqs

\* the handler has its answer and calls sendJSONResponse
Respond(w, code) == wk' = [wk EXCEPT ![w] = [IdleWorker EXCEPT !.pc = "respond", !.status = code]]

\* variant: handleSet without the check for the empty key
HandleSetAnyKey(w) ==
  /\ Accepting /\ wk[w].pc = "idle"
  /\ \E method \in Methods, readOk \in BOOLEAN, body \in Bodies :
       LET req == UnmarshalSetRequest(body) IN
       IF method # "POST" THEN Respond(w, 405) /\ mu' = mu
       ELSE IF ~readOk THEN Respond(w, 400) /\ mu' = mu
       ELSE IF ~req.ok THEN Respond(w, 400) /\ mu' = mu
       ELSE /\ CanLock
            /\ mu' = [mu EXCEPT !.writer = w]
            /\ wk' = [wk EXCEPT ![w] = [IdleWorker EXCEPT !.pc = "set_write",
                                          !.key = req.Key, !.value = req.Value]]
  /\ nreq' = nreq + 1
  /\ UNCHANGED <<procVars, store, dirty, fsVars, syncVars, shutVars, histVars>>

\* handleSet up to Set's kvs.mu.Lock(): a rejected request is answered at once
HandleSet(w) ==
  /\ Accepting /\ wk[w].pc = "idle"
  /\ \E method \in Methods, readOk \in BOOLEAN, body \in Bodies :
       LET req == UnmarshalSetRequest(body) IN
       IF method # "POST" THEN Respond(w, 405) /\ mu' = mu
       ELSE IF ~readOk THEN Respond(w, 400) /\ mu' = mu
       ELSE IF ~req.ok THEN Respond(w, 400) /\ mu' = mu
       ELSE IF req.Key = <<>> THEN Respond(w, 400) /\ mu' = mu
       ELSE /\ CanLock
            /\ mu' = [mu EXCEPT !.writer = w]
            /\ wk' = [wk EXCEPT ![w] = [IdleWorker EXCEPT !.pc = "set_write",
                                          !.key = req.Key, !.value = req.Value]]
  /\ nreq' = nreq + 1
  /\ UNCHANGED <<procVars, store, dirty, fsVars, syncVars, shutVars, histVars>>

\* variant: Set does not mark the store dirty
SetWriteKeepsDirty(w) ==
  /\ Running /\ wk[w].pc = "set_write"
  /\ store' = [k \in DOMAIN store \cup {wk[w].key} |->
                 IF k = wk[w].key THEN wk[w].value ELSE store[k]]
  /\ dirty' = dirty
  /\ mu' = [mu EXCEPT !.writer = NoTask]
  /\ Respond(w, 200)
  /\ written' = [k \in DOMAIN written \cup {wk[w].key} |->
                   IF k = wk[w].key THEN wk[w].value ELSE written[k]]
  /\ UNCHANGED <<procVars, fsVars, syncVars, shutVars, nreq, callData>>

\* Set under the lock: kvs.store[key] = value; kvs.dirty = true; the deferred
\* Unlock; handleSet then has the answer 200
SetWrite(w) ==
  /\ Running /\ wk[w].pc = "set_write"
  /\ store' = [k \in DOMAIN store \cup {wk[w].key} |->
                 IF k = wk[w].key THEN wk[w].value ELSE store[k]]
  /\ dirty' = TRUE
  /\ mu' = [mu EXCEPT !.writer = NoTask]
  /\ Respond(w, 200)
  /\ written' = [k \in DOMAIN written \cup {wk[w].key} |->
                   IF k = wk[w].key THEN wk[w].value ELSE written[k]]
  /\ UNCHANGED <<procVars, fsVars, syncVars, shutVars, nreq, callData>>

\* handleGet up to Get's kvs.mu.RLock()
HandleGet(w) ==
  /\ Accepting /\ wk[w].pc = "idle"
  /\ \E method \in Methods, key \in ReqKeys :
       IF method # "GET" THEN Respond(w, 405) /\ mu' = mu
       ELSE IF key = <<>> THEN Respond(w, 400) /\ mu' = mu
       ELSE /\ CanRLock
            /\ mu' = [mu EXCEPT !.readers = @ \cup {w}]
            /\ wk' = [wk EXCEPT ![w] = [IdleWorker EXCEPT !.pc = "get_read", !.key = key]]
  /\ nreq' = nreq + 1
  /\ UNCHANGED <<procVars, store, dirty, fsVars, syncVars, shutVars, histVars>>

\* variant: Get returns kvs.store[key] and reports every key as found
GetReadAlwaysFound(w) ==
  /\ Running /\ wk[w].pc = "get_read"
  /\ LET ok == wk[w].key \in DOMAIN store IN
     wk' = [wk EXCEPT ![w].pc = "respond",
                      ![w].found = TRUE,
                      ![w].out = IF ok THEN store[wk[w].key] ELSE <<>>,
                      ![w].status = 200]
  /\ mu' = [mu EXCEPT !.readers = @ \ {w}]
  /\ UNCHANGED <<procVars, store, dirty, fsVars, syncVars, shutVars, nreq, histVars>>

\* Get under the lock: value, ok := kvs.store[key]; the deferred RUnlock;
\* handleGet then has the answer 200 with the value, or 404
GetRead(w) ==
  /\ Running /\ wk[w].pc = "get_read"
  /\ LET ok == wk[w].key \in DOMAIN store IN
     wk' = [wk EXCEPT ![w].pc = "respond",
                      ![w].found = ok,
                      ![w].out = IF ok THEN store[wk[w].key] ELSE <<>>,
                      ![w].status = IF ok THEN 200 ELSE 404]
  /\ mu' = [mu EXCEPT !.readers = @ \ {w}]
  /\ UNCHANGED <<procVars, store, dirty, fsVars, syncVars, shutVars, nreq, histVars>>

\* handleCount up to Count's kvs.mu.RLock()
HandleCount(w) ==
  /\ Accepting /\ wk[w].pc = "idle"
  /\ \E method \in Methods :
       IF method # "GET" THEN Respond(w, 405) /\ mu' = mu
       ELSE /\ CanRLock
            /\ mu' = [mu EXCEPT !.readers = @ \cup {w}]
            /\ wk' = [wk EXCEPT ![w] = [IdleWorker EXCEPT !.pc = "count_read"]]
  /\ nreq' = nreq + 1
  /\ UNCHANGED <<procVars, store, dirty, fsVars, syncVars, shutVars, histVars>>

\* variant: Count leaves out the keys whose value is the empty string
CountReadSkipsEmpty(w) ==
  /\ Running /\ wk[w].pc = "count_read"
  /\ wk' = [wk EXCEPT ![w].pc = "respond",
                      ![w].n = Cardinality({k \in DOMAIN store : store[k] # <<>>}),
                      ![w].status = 200]
  /\ mu' = [mu EXCEPT !.readers = @ \ {w}]
  /\ UNCHANGED <<procVars, store, dirty, fsVars, syncVars, shutVars, nreq, histVars>>

\* Count under the lock: len(kvs.store); the deferred RUnlock; handleCount then
\* has the answer 200
CountRead(w) ==
  /\ Running /\ wk[w].pc = "count_read"
  /\ wk' = [wk EXCEPT ![w].pc = "respond", ![w].n = Cardinality(DOMAIN store),
                      ![w].status = 200]
  /\ mu' = [mu EXCEPT !.readers = @ \ {w}]
  /\ UNCHANGED <<procVars, store, dirty, fsVars, syncVars, shutVars, nreq, histVars>>

\* sendJSONResponse: the answer is written and the handler returns
SendResponse(w) ==
  /\ Running /\ wk[w].pc = "respond"
  /\ wk' = [wk EXCEPT ![w] = IdleWorker]
  /\ UNCHANGED <<procVars, storeVars, fsVars, syncVars, shutVars, nreq, histVars>>

(***************************************************************************)
(* startSyncRoutine and saveToDisk.                                        *)
(***************************************************************************)
\* variant: no deferred Unlock, an error return leaves the lock held
SaveReturnKeepsLock(ret) ==
  /\ mu' = (IF ret = "ret_err" THEN mu ELSE [mu EXCEPT !.writer = NoTask])
  /\ syncPc' = ret

\* saveToDisk returns at one of its return statements ("ret_clean" at the dirty
\* check, "ret_err" on an error, "ret_saved" at the end): the deferred Unlock runs
SaveReturn(ret) ==
  /\ mu' = [mu EXCEPT !.writer = NoTask]
  /\ syncPc' = ret

\* variant: saveToDisk without the dirty check
SaveBeginAlways ==
  /\ CanLock
  /\ mu' = [mu EXCEPT !.writer = "sync"] /\ syncPc' = "create"
  /\ callData' = dataFile

\* saveToDisk up to os.Create: kvs.mu.Lock(); if !kvs.dirty { return nil }
SaveBegin ==
  /\ CanLock
  /\ IF ~dirty THEN mu' = mu /\ syncPc' = "ret_clean"
     ELSE mu' = [mu EXCEPT !.writer = "sync"] /\ syncPc' = "create"
  /\ callData' = dataFile

\* case <-ticker.C: saveToDisk is called
Tick ==
  /\ Running /\ syncPc = "select"
  /\ SaveBegin /\ final' = FALSE
  /\ UNCHANGED <<procVars, store, dirty, fsVars, shutVars, reqVars, written>>

\* case <-ctx.Done(): saveToDisk is called, and the loop returns after it
Done ==
  /\ Running /\ syncPc = "select" /\ ctxDone
  /\ SaveBegin /\ final' = TRUE
  /\ UNCHANGED <<procVars, store, dirty, fsVars, shutVars, reqVars, written>>

\* variant: the snapshot is written in place, os.Create(dataFile)
SaveCreateInPlace ==
  /\ Running /\ syncPc = "create"
  /\ \/ /\ dataFile' = File(<<>>) /\ tmpFile' = tmpFile
        /\ syncPc' = "encode" /\ mu' = mu
     \/ /\ UNCHANGED fsVars
        /\ SaveReturn("ret_err")
  /\ UNCHANGED <<procVars, store, dirty, final, shutVars, reqVars, histVars>>

\* os.Create(tempFile): the file is created or truncated
SaveCreate ==
  /\ Running /\ syncPc = "create"
  /\ \/ /\ tmpFile' = File(<<>>)
        /\ syncPc' = "encode" /\ mu' = mu
     \/ /\ tmpFile' = tmpFile
        /\ SaveReturn("ret_err")
  /\ UNCHANGED <<procVars, store, dirty, dataFile, final, shutVars, reqVars, histVars>>

\* variant: the lock is released once the map is encoded, before the disk I/O
SaveEncodeUnlocks ==
  /\ Running /\ syncPc = "encode"
  /\ \/ /\ tmpFile' = File(EncodeMap(store))
        /\ syncPc' = "fsync" /\ mu' = [mu EXCEPT !.writer = NoTask]
     \/ /\ tmpFile' \in Partial(EncodeMap(store))
        /\ SaveReturn("ret_err")
  /\ UNCHANGED <<procVars, store, dirty, dataFile, final, shutVars, reqVars, histVars>>

\* json.NewEncoder(file).Encode(kvs.store); a failed write leaves a part of the text
SaveEncode ==
  /\ Running /\ syncPc = "encode"
  /\ \/ /\ tmpFile' = File(EncodeMap(store))
        /\ syncPc' = "fsync" /\ mu' = mu
     \/ /\ tmpFile' \in Partial(EncodeMap(store))
        /\ SaveReturn("ret_err")
  /\ UNCHANGED <<procVars, store, dirty, dataFile, final, shutVars, reqVars, histVars>>

\* variant: a failed file.Sync() also clears the dirty flag
SaveSyncClearsDirty ==
  /\ Running /\ syncPc = "fsync"
  /\ \/ syncPc' = "close" /\ mu' = mu /\ dirty' = dirty
     \/ SaveReturn("ret_err") /\ dirty' = FALSE
  /\ UNCHANGED <<procVars, store, fsVars, final, shutVars, reqVars, histVars>>

\* file.Sync(); on an error file.Close()
SaveSync ==
  /\ Running /\ syncPc = "fsync"
  /\ \/ syncPc' = "close" /\ mu' = mu
     \/ SaveReturn("ret_err")
  /\ UNCHANGED <<procVars, store, dirty, fsVars, final, shutVars, reqVars, histVars>>

\* variant: the dirty flag is cleared once the file is closed, before the rename
SaveCloseClearsDirty ==
  /\ Running /\ syncPc = "close"
  /\ \/ syncPc' = "rename" /\ mu' = mu /\ dirty' = FALSE
     \/ SaveReturn("ret_err") /\ dirty' = dirty
  /\ UNCHANGED <<procVars, store, fsVars, final, shutVars, reqVars, histVars>>

\* file.Close()
SaveClose ==
  /\ Running /\ syncPc = "close"
  /\ \/ syncPc' = "rename" /\ mu' = mu
     \/ SaveReturn("ret_err")
  /\ UNCHANGED <<procVars, store, dirty, fsVars, final, shutVars, reqVars, histVars>>

\* variant: the error of os.Rename is dropped and the call goes on
SaveRenameIgnoresError ==
  /\ Running /\ syncPc = "rename"
  /\ \/ /\ dataFile' = tmpFile /\ tmpFile' = NoFile
        /\ syncPc' = "clear" /\ mu' = mu
     \/ /\ UNCHANGED fsVars
        /\ syncPc' = "clear" /\ mu' = mu
  /\ UNCHANGED <<procVars, store, dirty, final, shutVars, reqVars, histVars>>

\* os.Rename(tempFile, dataFile)
SaveRename ==
  /\ Running /\ syncPc = "rename"
  /\ \/ /\ dataFile' = tmpFile /\ tmpFile' = NoFile
        /\ syncPc' = "clear" /\ mu' = mu
     \/ /\ UNCHANGED fsVars
        /\ SaveReturn("ret_err")
  /\ UNCHANGED <<procVars, store, dirty, final, shutVars, reqVars, histVars>>

\* kvs.dirty = false; return nil
SaveClear ==
  /\ Running /\ syncPc = "clear"
  /\ dirty' = FALSE
  /\ SaveReturn("ret_saved")
  /\ UNCHANGED <<procVars, store, fsVars, final, shutVars, reqVars, histVars>>

\* variant: the ctx.Done() case has no return, the loop goes on
SaveLoggedLoops ==
  /\ Running /\ syncPc \in {"ret_clean", "ret_saved", "ret_err"}
  /\ syncPc' = "select"
  /\ callData' = dataFile
  /\ UNCHANGED <<procVars, storeVars, fsVars, final, shutVars, reqVars, written>>

\* back in startSyncRoutine: an error is logged; the loop goes on after a tick
\* and returns after ctx.Done()
SaveLogged ==
  /\ Running /\ syncPc \in {"ret_clean", "ret_saved", "ret_err"}
  /\ syncPc' = IF final THEN "returned" ELSE "select"
  /\ callData' = dataFile
  /\ UNCHANGED <<procVars, storeVars, fsVars, final, shutVars, reqVars, written>>

(***************************************************************************)
(* The HTTP server goroutine, the shutdown listener and main.              *)
(***************************************************************************)
\* server.ListenAndServe(): fails to listen, serves, or finds the server closed
HttpListen ==
  /\ Running /\ httpPc = "start"
  /\ \/ /\ srv = "closed"
        /\ httpPc' = "done" /\ srv' = srv
        /\ UNCHANGED <<procVars, storeVars, fsVars, syncVars, ctxDone, mainPc, tcpPc, reqVars, histVars>>
     \/ /\ srv = "new"
        /\ httpPc' = "serving" /\ srv' = "listening"
        /\ UNCHANGED <<procVars, storeVars, fsVars, syncVars, ctxDone, mainPc, tcpPc, reqVars, histVars>>
     \/ /\ srv = "new"
        /\ Exit(1, "http_listen")

\* gracefulShutdown up to the wait in server.Shutdown(ctx): the listeners are
\* closed, so that ListenAndServe returns http.ErrServerClosed
ShutdownCalled ==
  /\ srv' = "closed"
  /\ httpPc' = IF httpPc = "serving" THEN "done" ELSE httpPc

\* the shutdown listener goroutine up to server.Shutdown: net.Listen fails and
\* log.Fatalf exits; or Accept fails and the goroutine returns; or a connection
\* arrives and gracefulShutdown is called
TcpAccept ==
  /\ Running /\ tcpPc = "accept"
  /\ \/ Exit(1, "tcp_listen")
     \/ /\ tcpPc' = "done"
        /\ UNCHANGED <<procVars, storeVars, fsVars, syncVars, ctxDone, mainPc, httpPc, srv, reqVars, histVars>>
     \/ /\ tcpPc' = "gs_wait" /\ ShutdownCalled
        /\ UNCHANGED <<procVars, storeVars, fsVars, syncVars, ctxDone, mainPc, reqVars, histVars>>

\* <-quit: SIGINT or SIGTERM is delivered, and main calls cancel()
Signal ==
  /\ Running /\ mainPc = "wait"
  /\ ctxDone' = TRUE /\ mainPc' = "gs_call"
  /\ UNCHANGED <<procVars, storeVars, fsVars, syncVars, tcpPc, httpPc, srv, reqVars, histVars>>

\* main calls gracefulShutdown
MainShutdown ==
  /\ Running /\ mainPc = "gs_call"
  /\ mainPc' = "gs_wait" /\ ShutdownCalled
  /\ UNCHANGED <<procVars, storeVars, fsVars, syncVars, ctxDone, tcpPc, reqVars, histVars>>

ShutdownTasks == {"main", "tcp"}
PcOf(t) == IF t = "main" THEN mainPc ELSE tcpPc

AllIdle == \A w \in Workers : wk[w].pc = "idle"

\* variant: the error of server.Shutdown is dropped and the exit status is 0
GsReturnIgnoresError(t) ==
  /\ Running /\ PcOf(t) = "gs_wait"
  /\ Exit(0, t)

\* gracefulShutdown in task t: server.Shutdown returns nil once no handler runs,
\* then os.Exit(0); or it returns an error (the timeout, a close failure) and
\* log.Fatalf exits
GsReturn(t) ==
  /\ Running /\ PcOf(t) = "gs_wait"
  /\ \/ AllIdle /\ Exit(0, t)
     \/ Exit(1, t)

\* the process is killed where it stands
Crash ==
  /\ Running
  /\ Exit(137, "kill")

Next ==
  \/ Boot
  \/ \E w \in Workers : HandleSet(w)
  \/ \E w \in Workers : SetWrite(w)
  \/ \E w \in Workers : HandleGet(w)
  \/ \E w \in Workers : GetRead(w)
  \/ \E w \in Workers : HandleCount(w)
  \/ \E w \in Workers : CountRead(w)
  \/ \E w \in Workers : SendResponse(w)
  \/ Tick
  \/ Done
  \/ SaveCreate
  \/ SaveEncode
  \/ SaveSync
  \/ SaveClose
  \/ SaveRename
  \/ SaveClear
  \/ SaveLogged
  \/ HttpListen
  \/ TcpAccept
  \/ Signal
  \/ MainShutdown
  \/ \E t \in ShutdownTasks : GsReturn(t)
  \/ Crash

Spec == Init /\ [][Next]_vars

\* main goes on to call gracefulShutdown after cancel(), and server.Shutdown
\* returns within its timeout
ShutdownFairness ==
  /\ WF_vars(MainShutdown)
  /\ \A t \in ShutdownTasks : WF_vars(GsReturn(t))

\* the steps of the program, with at most LiveReqs requests taken
LiveNext ==
  \/ Boot
  \/ \E w \in Workers : nreq < LiveReqs /\ HandleSet(w)
  \/ \E w \in Workers : SetWrite(w)
  \/ \E w \in Workers : nreq < LiveReqs /\ HandleGet(w)
  \/ \E w \in Workers : GetRead(w)
  \/ \E w \in Workers : nreq < LiveReqs /\ HandleCount(w)
  \/ \E w \in Workers : CountRead(w)
  \/ \E w \in Workers : SendResponse(w)
  \/ Tick
  \/ Done
  \/ SaveCreate
  \/ SaveEncode
  \/ SaveSync
  \/ SaveClose
  \/ SaveRename
  \/ SaveClear
  \/ SaveLogged
  \/ HttpListen
  \/ TcpAccept
  \/ Signal
  \/ MainShutdown
  \/ \E t \in ShutdownTasks : GsReturn(t)
  \/ Crash

ShutdownSpec == Init /\ [][LiveNext]_vars /\ ShutdownFairness

\* a handler inside Set, Get or Count leaves its critical section
HandlerStep == \E w \in Workers : SetWrite(w) \/ GetRead(w) \/ CountRead(w)

\* the sync routine takes its next step: the ticker fires or ctx.Done() is
\* taken, and saveToDisk goes on to its return
SyncStep ==
  \/ Tick \/ Done
  \/ SaveCreate \/ SaveEncode \/ SaveSync \/ SaveClose \/ SaveRename \/ SaveClear
  \/ SaveLogged

\* the handlers and the sync routine keep running, and a step of saveToDisk
\* that is tried again and again succeeds in the end
PersistFairness ==
  /\ WF_vars(HandlerStep)
  /\ WF_vars(SyncStep)
  /\ SF_vars(SaveCreate /\ syncPc' = "encode")
  /\ SF_vars(SaveEncode /\ syncPc' = "fsync")
  /\ SF_vars(SaveSync /\ syncPc' = "close")
  /\ SF_vars(SaveClose /\ syncPc' = "rename")
  /\ SF_vars(SaveRename /\ syncPc' = "clear")

PersistSpec == Init /\ [][LiveNext]_vars /\ PersistFairness

(***************************************************************************)
(* Properties.                                                             *)
(***************************************************************************)
\* a file that is absent or holds exactly the encoding of a record set
Complete(f) ==
  ~f.exists \/ (DecodeStream(f.data).ok /\ f.data = EncodeMap(DecodeStream(f.data).val))

\* C1: kvstore.json is never a partly written record set, whatever step of
\* saveToDisk the process stops at: it is the file the first run found or a
\* complete snapshot, and it changes only at the rename, to the complete
\* encoding of the record set.
C1_SnapshotNeverPartial ==
  /\ [](dataFile \in InitDataFiles \/ Complete(dataFile))
  /\ [][dataFile' # dataFile =>
          syncPc = "rename" /\ dataFile' = File(EncodeMap(store))]_vars

\* the process was killed while a second flush was writing the temporary file
C1_KilledMidFlush ==
  /\ proc = "exited" /\ exitCause = "kill"
  /\ tmpFile.exists /\ ~DecodeStream(tmpFile.data).ok
  /\ dataFile.exists /\ Complete(dataFile)

\* C2: the process exits through gracefulShutdown only after the scheduler was
\* cancelled and its final saveToDisk has returned.
C2_ExitAfterFinalFlush ==
  [][(Running /\ proc' = "exited" /\ exitCause' \in ShutdownTasks) =>
        (ctxDone /\ syncPc = "returned")]_vars

\* C3: a shutdown started by a connection to the control listener that exits
\* with code 0 has cancelled the scheduler, which has made its final flush.
C3_ControlConnectionCancels ==
  [][(Running /\ proc' = "exited" /\ exitCause' = "tcp" /\ exitCode' = 0) =>
        (ctxDone /\ final /\ syncPc = "returned")]_vars

\* C4: gracefulShutdown is never entered by two tasks in the same run.
C4_OneShutdown == ~(mainPc = "gs_wait" /\ tcpPc = "gs_wait")

\* C5: when saveToDisk returns an error the dirty flag is still true, the
\* scheduler no longer holds the lock and kvstore.json is as the call found it.
C5_FailedFlush ==
  syncPc = "ret_err" => (dirty /\ mu.writer # "sync" /\ dataFile = callData)

\* a flush failed at the rename, after an earlier flush had written a snapshot
C5_RenameFailed ==
  /\ syncPc = "ret_err" /\ dataFile.exists
  /\ tmpFile = File(EncodeMap(store)) /\ dataFile # tmpFile

\* loadFromDisk into the empty map of a fresh store
Reload(f) == loadFromDisk(f, FALSE)

\* C6: when a saveToDisk call returns success, a fresh store loaded from
\* kvstore.json holds every key given by a Set that has returned, with the
\* value last set, however the Sets and the flushes were interleaved.
C6_NoLostUpdates ==
  [][(syncPc' # syncPc /\ syncPc' \in {"ret_clean", "ret_saved"}) =>
        /\ ~Reload(dataFile').err
        /\ \A k \in DOMAIN written' :
             /\ k \in DOMAIN Reload(dataFile').store
             /\ Reload(dataFile').store[k] = written'[k]]_vars

\* two handlers have set two keys, a flush ran between the two Sets and a
\* second flush has just returned success
C6_TwoKeysAcrossFlushes ==
  /\ syncPc = "ret_saved"
  /\ \A w \in Workers : wk[w].pc = "respond" /\ wk[w].status = 200 /\ ~wk[w].found
  /\ DOMAIN written = {<<"a">>, <<"b">>}
  /\ callData.exists /\ Cardinality(DOMAIN Reload(callData).store) = 1
  /\ Reload(dataFile).store = written

\* the tasks inside a critical section of kvs.mu
Writers ==
  {w \in Workers : wk[w].pc = "set_write"}
  \cup (IF syncPc \in {"create", "encode", "fsync", "close", "rename", "clear"}
        THEN {"sync"} ELSE {})
Readers == {w \in Workers : wk[w].pc \in {"get_read", "count_read"}}

\* C7: a task inside Set (or saveToDisk) holds the lock alone, with no task
\* inside Get or Count; tasks inside Get and Count hold it together; the map is
\* always the result of the Sets in the order of their critical sections, and a
\* Get or Count returns what the Sets that have returned left.
C7_Linearizable ==
  /\ [](/\ Cardinality(Writers) <= 1
        /\ (Writers # {} => Readers = {})
        /\ Writers = (IF mu.writer = NoTask THEN {} ELSE {mu.writer})
        /\ Readers = mu.readers
        /\ store = written)
  /\ [][\A w \in Workers :
          /\ (wk[w].pc = "get_read" /\ wk'[w].pc = "respond") =>
               /\ wk'[w].found = (wk[w].key \in DOMAIN written)
               /\ (wk'[w].found => wk'[w].out = written[wk[w].key])
          /\ (wk[w].pc = "count_read" /\ wk'[w].pc = "respond") =>
               wk'[w].n = Cardinality(DOMAIN written)]_vars

\* a Get that started after a Set to its key had returned has read that value
C7_GetAfterSet ==
  /\ wk["h1"].pc = "respond" /\ wk["h1"].status = 200 /\ ~wk["h1"].found
  /\ wk["h2"].pc = "respond" /\ wk["h2"].found /\ wk["h2"].key = <<"a">>
  /\ wk["h2"].out = <<Quote, Replacement>>
  /\ dirty

\* C8: once saveToDisk has renamed the temporary file, a fresh store loaded
\* from kvstore.json is exactly the map that was flushed: the same keys, the
\* same value for every key, empty values included.
C8_RoundTrip ==
  syncPc = "clear" => Reload(dataFile) = [err |-> FALSE, store |-> store]

\* a flush of two keys, one with the empty value and one with a quote in it
C8_FlushedEmptyAndQuoted ==
  /\ syncPc = "clear"
  /\ DOMAIN store = {<<"a">>, <<"b">>}
  /\ \E k \in DOMAIN store : store[k] = <<>>
  /\ \E k \in DOMAIN store : store[k] = <<Quote, Replacement>>
  /\ Reload(dataFile).store = store

\* C9: a saveToDisk call that finds the dirty flag false returns nil with
\* both files untouched and the lock released; the files change only while the
\* flag is true.
C9_CleanFlushIsNoOp ==
  /\ [][(syncPc = "select" /\ syncPc' # "select" /\ ~dirty) =>
          (syncPc' = "ret_clean" /\ UNCHANGED fsVars /\ mu' = mu)]_vars
  /\ [][fsVars' # fsVars => dirty]_vars

\* a Set, a flush that wrote the snapshot, then a second flush that found the
\* flag clear
C9_SecondFlushClean ==
  /\ syncPc = "ret_clean" /\ ~dirty
  /\ store # EmptyMap /\ dataFile = File(EncodeMap(store)) /\ tmpFile = NoFile
  /\ wk["h1"].pc = "respond" /\ wk["h1"].status = 200 /\ ~wk["h1"].found
  /\ wk["h1"].n = 0

\* C10: Get of a key that was neither loaded nor set answers not found; Get of
\* a key that was set answers the value last set, found; and a Set changes the
\* map at its own key only.
C10_GetSemantics ==
  /\ [][\A w \in Workers :
          (wk[w].pc = "get_read" /\ wk'[w].pc = "respond") =>
            IF wk[w].key \in DOMAIN written
            THEN wk'[w].found /\ wk'[w].out = written[wk[w].key] /\ wk'[w].status = 200
            ELSE ~wk'[w].found /\ wk'[w].status = 404]_vars
  /\ [][\A w \in Workers :
          (wk[w].pc = "set_write" /\ wk'[w].pc = "respond") =>
            /\ store'[wk[w].key] = wk[w].value
            /\ \A k \in ReqKeys \ {wk[w].key} :
                 /\ (k \in DOMAIN store') = (k \in DOMAIN store)
                 /\ (k \in DOMAIN store => store'[k] = store[k])]_vars

\* after a Set to another key, a Get of a key never set has answered not found
C10_OtherKeyNotFound ==
  /\ wk["h1"].pc = "respond" /\ wk["h1"].status = 200 /\ ~wk["h1"].found
  /\ wk["h2"].pc = "respond" /\ wk["h2"].status = 404 /\ wk["h2"].key = <<"b">>
  /\ DOMAIN store = {<<"a">>} /\ dirty

\* C11: Count answers the number of distinct keys loaded or set so far; a Set
\* of a new key raises the number of keys by one and a Set of a key already
\* there leaves it as it is.
C11_CountDistinctKeys ==
  [][\A w \in Workers :
       /\ (wk[w].pc = "count_read" /\ wk'[w].pc = "respond") =>
            wk'[w].n = Cardinality(DOMAIN written) /\ wk'[w].status = 200
       /\ (wk[w].pc = "set_write" /\ wk'[w].pc = "respond") =>
            Cardinality(DOMAIN store') =
              Cardinality(DOMAIN store) + (IF wk[w].key \in DOMAIN store THEN 0 ELSE 1)]_vars

\* a Count has answered 1 after one Set, of the empty value, on the empty store
C11_CountedOneKey ==
  /\ wk["h1"].pc = "respond" /\ wk["h1"].status = 200 /\ ~wk["h1"].found
  /\ wk["h2"].pc = "respond" /\ wk["h2"].n = 1
  /\ Cardinality(DOMAIN store) = 1 /\ \A k \in DOMAIN store : store[k] = <<>>
  /\ ~dataFile.exists /\ dirty

\* C12: a start with no kvstore.json runs with the empty map and the dirty
\* flag clear; a start with a file that opens and decodes runs with the decoded
\* map; any other start ends the process with status 1, with no request taken
\* and both files as they were.
C12_StartupLoad ==
  [][~Running =>
       LET r == DecodeStream(dataFile.data)
           failed == /\ proc' = "exited" /\ exitCode' = 1 /\ exitCause' = "load"
                     /\ nreq' = nreq /\ UNCHANGED fsVars
           started == /\ proc' = "running" /\ ~dirty' /\ syncPc' = "select"
                      /\ srv' = "new" /\ nreq' = nreq /\ UNCHANGED fsVars
       IN IF ~dataFile.exists THEN started /\ store' = EmptyMap
          ELSE IF ~r.ok THEN failed
          ELSE (started /\ store' = r.val) \/ failed]_vars

\* the first start found a snapshot that does not decode and the process exited
C12_DamagedSnapshotIsFatal ==
  /\ proc = "exited" /\ exitCause = "load" /\ exitCode = 1
  /\ dataFile.exists /\ ~DecodeStream(dataFile.data).ok
  /\ nreq = 0 /\ store = EmptyMap

\* C13: a request that a handler rejects is answered 400 or 405 and leaves
\* the map and the dirty flag as they were; Set is called with a non-empty key
\* only, and its one assignment is followed by the answer 200.
C13_RejectedSetChangesNothing ==
  /\ [](\A w \in Workers : wk[w].pc = "set_write" => wk[w].key # <<>>)
  /\ [][\A w \in Workers :
          /\ (wk[w].pc = "idle" /\ wk'[w].pc = "respond") =>
               wk'[w].status \in {400, 405} /\ UNCHANGED <<store, dirty>>
          /\ (wk[w].pc = "idle" /\ wk'[w].pc = "set_write") => UNCHANGED <<store, dirty>>
          /\ (wk[w].pc = "set_write" /\ wk'[w].pc = "respond") =>
               /\ wk'[w].status = 200 /\ dirty'
               /\ store' = [k \in DOMAIN store \cup {wk[w].key} |->
                              IF k = wk[w].key THEN wk[w].value ELSE store[k]]]_vars

\* two requests were rejected, one for its method and one for its content,
\* and the store of the first start is untouched
C13_TwoRejected ==
  /\ wk["h1"].pc = "respond" /\ wk["h1"].status = 405
  /\ wk["h2"].pc = "respond" /\ wk["h2"].status = 400
  /\ store = EmptyMap /\ ~dirty /\ nreq = 2

\* a shutdown trigger has been taken in this run
Triggered == Running /\ (mainPc \in {"gs_call", "gs_wait"} \/ tcpPc = "gs_wait")

\* C14: gracefulShutdown ends the process with status 0 only when
\* server.Shutdown found no handler running, and with status 1 otherwise; a run
\* that has taken a trigger ends.
C14_ShutdownExitStatus ==
  /\ [][(Running /\ proc' = "exited" /\ exitCause' \in ShutdownTasks) =>
          /\ PcOf(exitCause') = "gs_wait"
          /\ exitCode' \in {0, 1}
          /\ (exitCode' = 0 => AllIdle)]_vars
  /\ (Triggered ~> proc = "exited")

\* after the signal, main drained the server that had taken a request and
\* the process exited with status 0
C14_DrainedExit ==
  /\ proc = "exited" /\ exitCause = "main" /\ exitCode = 0
  /\ nreq > 0

\* C15: within a run, every Set leaves the dirty flag true; the flag goes
\* from false to true only in a Set, and from true to false only in the last
\* statement of a saveToDisk whose rename has put the encoding of the map in
\* kvstore.json.
C15_DirtyDiscipline ==
  [][(Running /\ proc' = "running") =>
       /\ \A w \in Workers : (wk[w].pc = "set_write" /\ wk'[w].pc = "respond") => dirty'
       /\ (~dirty /\ dirty') => \E w \in Workers : wk[w].pc = "set_write" /\ wk'[w].pc = "respond"
       /\ (dirty /\ ~dirty') =>
            /\ syncPc = "clear" /\ syncPc' = "ret_saved"
            /\ dataFile = File(EncodeMap(store)) /\ UNCHANGED <<store, fsVars>>]_vars

\* after one Set, the flush that wrote the first snapshot has cleared the flag
C15_ClearedByFirstSnapshot ==
  /\ Running /\ syncPc = "ret_saved" /\ ~dirty
  /\ ~callData.exists /\ dataFile = File(EncodeMap(store)) /\ store # EmptyMap
  /\ tmpFile = NoFile /\ nreq = 1

\* saveToDisk is between its dirty check and its return
InFlush == syncPc \in {"create", "encode", "fsync", "close", "rename", "clear"}

\* C16: from its dirty check to its return a saveToDisk call holds kvs.mu as
\* the writer, no handler is inside Set, Get or Count, and the map does not
\* change; so the text it has written, and the snapshot it has renamed into
\* place when it clears the flag, is the encoding of the map as it stands.
C16_FlushHoldsLock ==
  /\ [](InFlush =>
          /\ mu = [writer |-> "sync", readers |-> {}]
          /\ \A w \in Workers : wk[w].pc \notin {"set_write", "get_read", "count_read"}
          /\ (syncPc \in {"fsync", "close", "rename"} => tmpFile = File(EncodeMap(store)))
          /\ (syncPc = "clear" => dataFile = File(EncodeMap(written))))
  /\ [][(InFlush /\ proc' = "running") => UNCHANGED <<store, dirty, written>>
                                          \/ (syncPc = "clear" /\ ~dirty')]_vars

\* a flush is writing the temporary file while one handler has answered its
\* Set and a further request can still arrive
C16_FlushInProgress ==
  /\ syncPc = "encode" /\ tmpFile = File(<<>>) /\ dirty
  /\ mu.writer = "sync"
  /\ wk["h1"].pc = "respond" /\ wk["h1"].status = 200 /\ wk["h2"].pc = "idle"
  /\ Accepting

\* C17: whenever a saveToDisk call returns, kvstore.json.tmp does not exist.
C17_TmpOnlyDuringFlush ==
  [][(InFlush /\ proc' = "running" /\ syncPc' \in {"ret_saved", "ret_err"}) =>
       ~tmpFile'.exists]_vars

\* saveToDisk has returned to startSyncRoutine
SaveReturned == syncPc \in {"ret_clean", "ret_saved", "ret_err"}

\* C18: the loop takes the ctx.Done() case only after cancel(); the saveToDisk
\* call it makes there is its last, and the loop returns after it whatever the
\* call returned; after a call made on a tick the loop waits again, whatever
\* the call returned; and the process does not stop at a return of saveToDisk.
C18_SchedulerLoop ==
  /\ []((final \/ syncPc = "returned") => (ctxDone /\ syncPc # "select"))
  /\ [][proc' = "running" =>
          /\ (final => final')
          /\ (syncPc = "returned" => syncPc' = "returned")
          /\ (SaveReturned /\ syncPc' # syncPc) =>
               syncPc' = (IF final THEN "returned" ELSE "select")]_vars
  /\ [][(SaveReturned /\ proc' = "exited") =>
          exitCause' \in {"kill", "main", "tcp", "http_listen", "tcp_listen"}]_vars

\* the final saveToDisk failed, the loop has returned and the process still
\* runs with the unsaved map
C18_LoopEndedAfterFailedFlush ==
  /\ Running /\ syncPc = "returned" /\ final
  /\ dirty /\ tmpFile.exists /\ tmpFile # File(EncodeMap(store))

\* C20: while the process runs with the dirty flag false, a fresh store
\* loaded from kvstore.json is the map in memory (the empty map when there is
\* no file).
C20_CleanMeansSaved ==
  (Running /\ ~dirty) =>
    /\ Reload(dataFile) = [err |-> FALSE, store |-> store]
    /\ (~dataFile.exists => store = EmptyMap)

\* a restarted process has loaded two keys from the snapshot of an earlier run
C20_LoadedCleanStore ==
  /\ Running /\ ~dirty /\ syncPc = "select" /\ httpPc = "start"
  /\ DOMAIN store = {<<"a">>, <<"b">>}
  /\ dataFile = File(EncodeMap(store))

\* kvstore.json holds every key loaded or set so far with its last value
Saved ==
  /\ ~Reload(dataFile).err
  /\ \A k \in DOMAIN written :
       k \in DOMAIN Reload(dataFile).store /\ Reload(dataFile).store[k] = written[k]

\* C19: while the process runs and no shutdown trigger has been taken, a state
\* in which some Set is not in kvstore.json is followed by a state in which
\* kvstore.json holds the last value of every key; and as long as some Set is
\* not in kvstore.json the dirty flag is set, so that the call of the next tick
\* writes again.
C19_EventuallySaved ==
  /\ ((Running /\ ~Saved) ~> (Saved \/ ~Running \/ Triggered))
  /\ []((Running /\ ~Saved) => dirty)

\* the Set a handler is still answering is in the snapshot and the sync
\* routine waits for the next tick
C19_SavedWhileRunning ==
  /\ Running /\ ~Triggered /\ syncPc = "select" /\ ~dirty
  /\ wk["h1"].pc = "respond" /\ wk["h1"].status = 200 /\ ~wk["h1"].found
  /\ written # EmptyMap /\ Saved /\ dataFile.exists /\ tcpPc = "accept"

====
